---------------------------- MODULE Spec2Model ----------------------------
(***************************************************************************)
(* Portfolio Tracker (js/app.js): the run of init() from page load to the  *)
(* rendered dashboard, with the lookups it fans out, and the pure          *)
(* functions it is built from (calculatePositions, the averages,           *)
(* convertToEUR, getCurrencyFromTicker).                                   *)
(*                                                                         *)
(* Representation.  A JavaScript value that may be a number, null or       *)
(* undefined is a record with a tag t: numbers are exact rationals n/d in  *)
(* lowest terms (IEEE rounding is not modelled), NaN is its own tag.       *)
(* Strings that the code inspects (tickers, currency codes) are sequences  *)
(* of one-character strings, so endsWith and toUpperCase are computed.     *)
(* Quantities are plain integers.                                          *)
(*                                                                         *)
(* Two specifications share the actions of init().  Spec takes every       *)
(* interleaving of the rate and price lookups, on short ledgers of plain   *)
(* buys and sells.                                                         *)
(* SpecEngine takes every ledger of the input set (two tickers, the three  *)
(* transaction types, two shapes of amounts) and lets the lookups settle   *)
(* in one step, since the engine reads only their joined results.          *)
(* A third, SpecConverter, calls convertToEUR on its own: on each price,   *)
(* currency code and rate table of the input sets, and, from a code that   *)
(* names EUR, again on what the call returned.                             *)
(***************************************************************************)
EXTENDS Integers, Sequences, FiniteSets, TLC

(***************************************************************************)
(* JavaScript values and arithmetic                                        *)
(***************************************************************************)
Null == [t |-> "null"]

Undefined == [t |-> "undefined"]

NaN == [t |-> "nan"]

Abs(x) == IF x < 0 THEN -x ELSE x

RECURSIVE GCD(_, _)
GCD(a, b) == IF b = 0 THEN a ELSE GCD(b, a % b)

\* the rational n/d (d # 0) in lowest terms with a positive denominator
Rat(n, d) ==
    LET s == IF d < 0 THEN -1 ELSE 1
        g == GCD(Abs(n), Abs(d))
    IN  [t |-> "num", n |-> (s * n) \div g, d |-> (s * d) \div g]

Num(n) == [t |-> "num", n |-> n, d |-> 1]

IsNum(v) == v.t = "num"

\* ToNumber: null is 0, undefined is NaN
ToNumber(v) ==
    IF v.t = "null" THEN Num(0) ELSE IF v.t = "num" THEN v ELSE NaN

\* ToBoolean: null, undefined, NaN and 0 are falsy
Truthy(v) == v.t = "num" /\ v.n # 0

\* a || b
OrElse(a, b) == IF Truthy(a) THEN a ELSE b

Add(a, b) ==
    LET x == ToNumber(a)
        y == ToNumber(b)
    IN  IF IsNum(x) /\ IsNum(y) THEN Rat(x.n * y.d + y.n * x.d, x.d * y.d) ELSE NaN

Sub(a, b) ==
    LET x == ToNumber(a)
        y == ToNumber(b)
    IN  IF IsNum(x) /\ IsNum(y) THEN Rat(x.n * y.d - y.n * x.d, x.d * y.d) ELSE NaN

Mul(a, b) ==
    LET x == ToNumber(a)
        y == ToNumber(b)
    IN  IF IsNum(x) /\ IsNum(y) THEN Rat(x.n * y.n, x.d * y.d) ELSE NaN

\* a / b; a zero divisor gives a non-finite result (NaN or an Infinity), which
\* is not a number of this model: both are represented by NaN
Div(a, b) ==
    LET x == ToNumber(a)
        y == ToNumber(b)
    IN  IF IsNum(x) /\ IsNum(y) /\ y.n # 0 THEN Rat(x.n * y.d, x.d * y.n) ELSE NaN

\* a > 0 (false for NaN)
GtZero(a) == LET x == ToNumber(a) IN IsNum(x) /\ x.n > 0

\* obj[key]: undefined when the key is absent
Get(obj, key) == IF key \in DOMAIN obj THEN obj[key] ELSE Undefined

(***************************************************************************)
(* Strings as sequences of characters                                      *)
(***************************************************************************)
EndsWith(s, suffix) ==
    /\ Len(s) >= Len(suffix)
    /\ SubSeq(s, Len(s) - Len(suffix) + 1, Len(s)) = suffix

UpperChar(c) ==
    CASE c = "e" -> "E" [] c = "u" -> "U" [] c = "r" -> "R" [] c = "s" -> "S"
      [] c = "d" -> "D" [] c = "g" -> "G" [] c = "b" -> "B" [] c = "p" -> "P"
      [] c = "x" -> "X" [] c = "k" -> "K" [] c = "l" -> "L" [] c = "n" -> "N"
      [] OTHER -> c

ToUpperCase(s) == [i \in 1..Len(s) |-> UpperChar(s[i])]

EUR == <<"E", "U", "R">>

GBP == <<"G", "B", "P">>

USD == <<"U", "S", "D">>

SEK == <<"S", "E", "K">>

PLN == <<"P", "L", "N">>

GBX == <<"G", "B", "X">>

(***************************************************************************)
(* Configuration                                                           *)
(***************************************************************************)
\* currency -> the ticker of its rate into EUR ('GBPEUR=X', ...)
EXCHANGE_RATE_TICKERS ==
    (GBP :> GBP \o EUR \o <<"=", "X">>) @@ (USD :> USD \o EUR \o <<"=", "X">>)
    @@ (SEK :> SEK \o EUR \o <<"=", "X">>) @@ (PLN :> PLN \o EUR \o <<"=", "X">>)

ConfiguredCurrencies == DOMAIN EXCHANGE_RATE_TICKERS

\* fallbacks[currency] || 1, with fallbacks = {GBP: 1.17, USD: 0.92, SEK: 0.088, PLN: 0.23}
FallbackRate(currency) ==
    LET fallbacks == (GBP :> Rat(117, 100)) @@ (USD :> Rat(23, 25))
                     @@ (SEK :> Rat(11, 125)) @@ (PLN :> Rat(23, 100))
    IN  OrElse(Get(fallbacks, currency), Num(1))


(***************************************************************************)
(* Price source: fetchYahooPrice                                           *)
(***************************************************************************)
\* What the network can answer to one request: the fetch rejects ("network"),
\* the status is not OK ("http"), or a body arrives whose
\* chart.result[0].meta.regularMarketPrice is `price` (undefined when missing).
Responses(quote) ==
    { [kind |-> "network", price |-> Undefined],
      [kind |-> "http", price |-> Undefined],
      [kind |-> "ok", price |-> Undefined],
      [kind |-> "ok", price |-> quote] }

Fulfilled(v, logged) == [state |-> "fulfilled", value |-> v, logged |-> logged]

Rejected == [state |-> "rejected", value |-> Undefined, logged |-> FALSE]

\* fetchYahooPrice without its catch block: a failure rejects the promise
fetchYahooPriceRejects(response) ==
    IF response.kind = "ok" /\ Truthy(response.price)
    THEN Fulfilled(response.price, FALSE)
    ELSE Rejected

\* fetchYahooPrice on one response: the settled promise it returns, and
\* whether the catch block logged "Failed to fetch <ticker>"
fetchYahooPrice(response) ==
    IF response.kind = "ok" /\ Truthy(response.price)
    THEN Fulfilled(response.price, FALSE)
    ELSE Fulfilled(Null, TRUE)

(***************************************************************************)
(* Currency converter                                                      *)
(***************************************************************************)
\* convertToEUR without its first line: a missing price is converted like a
\* number
convertToEURNullAsNumber(price, localCurrency, rates) ==
    IF localCurrency = GBX
    THEN Mul(Div(price, Num(100)), OrElse(Get(rates, GBP), Rat(117, 100)))
    ELSE LET currency == ToUpperCase(localCurrency)
             rate == Get(rates, currency)
         IN  IF currency = EUR THEN price
             ELSE IF Truthy(rate) THEN Mul(price, rate)
             ELSE price

\* convertToEUR without its return of the price for EUR: the code EUR is
\* looked up in the rate table like every other
convertToEURLooksEurUp(price, localCurrency, rates) ==
    IF price = Null \/ price = Undefined THEN Null
    ELSE IF localCurrency = GBX
         THEN Mul(Div(price, Num(100)), OrElse(Get(rates, GBP), Rat(117, 100)))
    ELSE LET currency == ToUpperCase(localCurrency)
             rate == Get(rates, currency)
         IN  IF Truthy(rate) THEN Mul(price, rate)
             ELSE price

convertToEUR(price, localCurrency, rates) ==
    IF price = Null \/ price = Undefined THEN Null
    ELSE IF localCurrency = GBX
         THEN Mul(Div(price, Num(100)), OrElse(Get(rates, GBP), Rat(117, 100)))
    ELSE LET currency == ToUpperCase(localCurrency)
             rate == Get(rates, currency)
         IN  IF currency = EUR THEN price
             ELSE IF Truthy(rate) THEN Mul(price, rate)
             ELSE price

getCurrencyFromTicker(ticker) ==
    IF EndsWith(ticker, <<".", "L">>) THEN GBX
    ELSE IF EndsWith(ticker, <<".", "A", "S">>) THEN EUR
    ELSE IF EndsWith(ticker, <<".", "D", "E">>) THEN EUR
    ELSE IF EndsWith(ticker, <<".", "S", "T">>) THEN SEK
    ELSE IF EndsWith(ticker, <<".", "W", "A">>) THEN PLN
    ELSE USD

(***************************************************************************)
(* Position aggregator                                                     *)
(***************************************************************************)
\* positionsByTicker is an object used as an insertion-ordered map: a
\* sequence of Positions, at most one per ticker, in first-seen order
IndexOfTicker(positionsByTicker, ticker) ==
    LET hits == {i \in 1..Len(positionsByTicker) : positionsByTicker[i].ticker = ticker}
    IN  IF hits = {} THEN 0 ELSE CHOOSE i \in hits : TRUE

HasTicker(positionsByTicker, ticker) == IndexOfTicker(positionsByTicker, ticker) # 0

PositionOf(positionsByTicker, ticker) ==
    positionsByTicker[IndexOfTicker(positionsByTicker, ticker)]

Lot(tx) ==
    [quantity |-> tx.quantity,
     pricePerShare |-> tx.pricePerShare,
     localCurrency |-> tx.localCurrency,
     eurValue |-> tx.eurValue,
     totalCosts |-> OrElse(tx.totalCosts, Num(0)),
     totalEur |-> tx.totalEur]

NewPosition(tx) ==
    [ticker |-> tx.yahooTicker,
     name |-> tx.name,
     localCurrency |-> tx.localCurrency,
     buys |-> <<>>,
     sells |-> <<>>,
     currentQuantity |-> 0]

\* the sell branch without its decrement of currentQuantity
ApplyToPositionSellKeepsQuantity(position, tx) ==
    IF tx.type = "buy"
    THEN [position EXCEPT !.buys = Append(@, Lot(tx)),
                          !.currentQuantity = @ + tx.quantity]
    ELSE IF tx.type = "sell"
    THEN [position EXCEPT !.sells = Append(@, Lot(tx))]
    ELSE position

\* a plain else in place of else if (tx.type === 'sell')
ApplyToPositionElseSells(position, tx) ==
    IF tx.type = "buy"
    THEN [position EXCEPT !.buys = Append(@, Lot(tx)),
                          !.currentQuantity = @ + tx.quantity]
    ELSE [position EXCEPT !.sells = Append(@, Lot(tx)),
                          !.currentQuantity = @ - tx.quantity]

\* the if / else-if on tx.type
ApplyToPosition(position, tx) ==
    IF tx.type = "buy"
    THEN [position EXCEPT !.buys = Append(@, Lot(tx)),
                          !.currentQuantity = @ + tx.quantity]
    ELSE IF tx.type = "sell"
    THEN [position EXCEPT !.sells = Append(@, Lot(tx)),
                          !.currentQuantity = @ - tx.quantity]
    ELSE position

\* one iteration of transactions.forEach
ApplyTransaction(positionsByTicker, tx) ==
    LET withKey == IF HasTicker(positionsByTicker, tx.yahooTicker)
                   THEN positionsByTicker
                   ELSE Append(positionsByTicker, NewPosition(tx))
        i == IndexOfTicker(withKey, tx.yahooTicker)
    IN  [withKey EXCEPT ![i] = ApplyToPosition(@, tx)]

RECURSIVE FoldTransactions(_, _, _)
FoldTransactions(txs, k, acc) ==
    IF k > Len(txs) THEN acc
    ELSE FoldTransactions(txs, k + 1, ApplyTransaction(acc, txs[k]))

calculatePositions(txs) == FoldTransactions(txs, 1, <<>>)

(***************************************************************************)
(* Averages and costs                                                      *)
(***************************************************************************)
\* lots.forEach(l => total += l[field]), total starting at `total`
RECURSIVE SumLots(_, _, _, _)
SumLots(lots, field, k, total) ==
    IF k > Len(lots) THEN total
    ELSE SumLots(lots, field, k + 1, Add(total, lots[k][field]))

\* lots.forEach(l => total += l.totalCosts || 0)
RECURSIVE SumCosts(_, _, _)
SumCosts(lots, k, total) ==
    IF k > Len(lots) THEN total
    ELSE SumCosts(lots, k + 1, Add(total, OrElse(lots[k].totalCosts, Num(0))))

RECURSIVE SumQuantity(_, _)
SumQuantity(lots, k) ==
    IF k > Len(lots) THEN 0 ELSE lots[k].quantity + SumQuantity(lots, k + 1)

calculateAvgBuyPrice(buys) ==
    IF Len(buys) = 0 THEN Num(0)
    ELSE LET totalCost == SumLots(buys, "totalEur", 1, Num(0))
             totalQuantity == SumQuantity(buys, 1)
         IN  IF totalQuantity > 0 THEN Div(totalCost, Num(totalQuantity)) ELSE Num(0)

\* the average of the cost-inclusive totalEur in place of eurValue
calculateAvgSellPriceOfTotals(sells) ==
    IF Len(sells) = 0 THEN Num(0)
    ELSE LET totalValue == SumLots(sells, "totalEur", 1, Num(0))
             totalQuantity == SumQuantity(sells, 1)
         IN  IF totalQuantity > 0 THEN Div(totalValue, Num(totalQuantity)) ELSE Num(0)

calculateAvgSellPrice(sells) ==
    IF Len(sells) = 0 THEN Num(0)
    ELSE LET totalValue == SumLots(sells, "eurValue", 1, Num(0))
             totalQuantity == SumQuantity(sells, 1)
         IN  IF totalQuantity > 0 THEN Div(totalValue, Num(totalQuantity)) ELSE Num(0)

calculateTotalCosts(buys, sells) ==
    SumCosts(sells, 1, SumCosts(buys, 1, Num(0)))

(***************************************************************************)
(* Promises                                                                *)
(***************************************************************************)
Pending == [state |-> "pending", value |-> Undefined, logged |-> FALSE]

\* Promise.any in place of Promise.all: fulfilled with the first fulfilled input
PromiseAny(states) ==
    IF "fulfilled" \in states THEN "fulfilled"
    ELSE IF states # {} /\ states \subseteq {"rejected"} THEN "rejected"
    ELSE "pending"

\* The state of Promise.all over promises in the given states: rejected as
\* soon as one input is rejected, fulfilled once every input is fulfilled.
PromiseAll(states) ==
    IF "rejected" \in states THEN "rejected"
    ELSE IF states \subseteq {"fulfilled"} THEN "fulfilled"
    ELSE "pending"

(***************************************************************************)
(* Valuation engine: the body of init after the lookups have been joined   *)
(***************************************************************************)
\* Object.values(positions).forEach: push to openPositions / closedPositions
IsOpen(pos) == pos.currentQuantity > 0

\* a plain else in place of else if (pos.sells.length > 0)
IsClosedWithoutSells(pos) == ~(pos.currentQuantity > 0)

IsClosed(pos) == ~(pos.currentQuantity > 0) /\ Len(pos.sells) > 0

\* plPercent without the invested > 0 guard
PlPercentUnguarded(pl, invested) ==
    IF pl # Null THEN Mul(Div(pl, invested), Num(100)) ELSE Null

\* pl !== null && invested > 0 ? (pl / invested) * 100 : null
PlPercent(pl, invested) ==
    IF pl # Null /\ GtZero(invested) THEN Mul(Div(pl, invested), Num(100)) ELSE Null

\* one iteration of openPositions.map, before portfolioPercent is known;
\* `invested` is the local the totals are accumulated from
OpenMetrics(pos, prices, rates) ==
    LET avgBuyPrice == calculateAvgBuyPrice(pos.buys)
        localCurrency == getCurrencyFromTicker(pos.ticker)
        currentLocalPrice == Get(prices, pos.ticker)
        currentPriceEUR == convertToEUR(currentLocalPrice, localCurrency, rates)
        invested == Mul(avgBuyPrice, Num(pos.currentQuantity))
        currentValue == IF currentPriceEUR # Null
                        THEN Mul(currentPriceEUR, Num(pos.currentQuantity))
                        ELSE Null
        pl == IF currentValue # Null THEN Sub(currentValue, invested) ELSE Null
        plPercent == PlPercent(pl, invested)
    IN  [ticker |-> pos.ticker,
         name |-> pos.name,
         quantity |-> pos.currentQuantity,
         avgBuyPrice |-> avgBuyPrice,
         currentPriceEUR |-> currentPriceEUR,
         currentValue |-> currentValue,
         pl |-> pl,
         plPercent |-> plPercent,
         invested |-> invested]

\* total += m[field] for the records whose `guard` field is not null
RECURSIVE SumKnown(_, _, _, _, _)
SumKnown(metrics, field, guard, k, total) ==
    IF k > Len(metrics) THEN total
    ELSE SumKnown(metrics, field, guard, k + 1,
                  IF metrics[k][guard] # Null THEN Add(total, metrics[k][field])
                  ELSE total)

\* the record openPositions.map returns, with the portfolioPercent that the
\* following openData.forEach adds
OpenRecord(m, totalPortfolioValue) ==
    [ticker |-> m.ticker,
     name |-> m.name,
     quantity |-> m.quantity,
     avgBuyPrice |-> m.avgBuyPrice,
     currentPriceEUR |-> m.currentPriceEUR,
     currentValue |-> m.currentValue,
     pl |-> m.pl,
     plPercent |-> m.plPercent,
     portfolioPercent |->
         IF m.currentValue # Null /\ GtZero(totalPortfolioValue)
         THEN Mul(Div(m.currentValue, totalPortfolioValue), Num(100))
         ELSE Null]

\* one iteration of closedPositions.map
ClosedRecord(pos) ==
    LET avgBuyPrice == calculateAvgBuyPrice(pos.buys)
        avgSellPrice == calculateAvgSellPrice(pos.sells)
        totalQtySold == SumQuantity(pos.sells, 1)
        totalCosts == calculateTotalCosts(pos.buys, pos.sells)
        sellCosts == SumCosts(pos.sells, 1, Num(0))
        realizedPL == Sub(Mul(Sub(avgSellPrice, avgBuyPrice), Num(totalQtySold)),
                          sellCosts)
    IN  [ticker |-> pos.ticker,
         name |-> pos.name,
         quantityTraded |-> totalQtySold,
         avgBuyPrice |-> avgBuyPrice,
         avgSellPrice |-> avgSellPrice,
         totalCosts |-> totalCosts,
         realizedPL |-> realizedPL]

\* renderOpenPositions sorts its argument in place, by (currentValue || 0)
\* descending; Array.prototype.sort is stable
SortKey(d) == OrElse(d.currentValue, Num(0))

RECURSIVE InsertSorted(_, _)
InsertSorted(sorted, d) ==
    IF sorted = <<>> THEN <<d>>
    ELSE IF GtZero(Sub(SortKey(Head(sorted)), SortKey(d)))
         THEN <<Head(sorted)>> \o InsertSorted(Tail(sorted), d)
         ELSE <<d>> \o sorted

RECURSIVE SortByValue(_, _, _)
SortByValue(data, k, sorted) ==
    IF k < 1 THEN sorted
    ELSE SortByValue(data, k - 1, InsertSorted(sorted, data[k]))

(***************************************************************************)
(* Inputs: what the transaction store and the price source can deliver     *)
(***************************************************************************)
MaxTx == 2

TickerUS == <<"A", "A", "A">>

TickerLondon == <<"I", "I", "I", ".", "L">>

Tickers == {TickerUS, TickerLondon}

\* the amounts of a transaction; the second has no totalCosts field
Shapes ==
    { [quantity |-> 10, pricePerShare |-> Num(100), eurValue |-> Num(480),
       totalCosts |-> Num(2), totalEur |-> Num(1020)],
      [quantity |-> 4, pricePerShare |-> Num(75), eurValue |-> Num(300),
       totalCosts |-> Undefined, totalEur |-> Num(0)] }

Types == {"buy", "sell", "dividend"}

Transaction(ticker, type, shape) ==
    [yahooTicker |-> ticker,
     name |-> IF ticker = TickerUS THEN "Alpha Inc" ELSE "3i Group",
     type |-> type,
     quantity |-> shape.quantity,
     pricePerShare |-> shape.pricePerShare,
     localCurrency |-> IF ticker = TickerUS THEN USD ELSE GBX,
     eurValue |-> shape.eurValue,
     totalCosts |-> shape.totalCosts,
     totalEur |-> shape.totalEur]

Transactions == {Transaction(k, ty, sh) : k \in Tickers, ty \in Types, sh \in Shapes}

SeqsUpTo(S, n) == UNION {[1..m -> S] : m \in 0..n}

\* every ledger of at most MaxTx transactions
Ledgers == SeqsUpTo(Transactions, MaxTx)

MaxPlainTx == 2

\* the ledgers of at most MaxPlainTx buys and sells of the first shape
PlainLedgers ==
    SeqsUpTo({tx \in Transactions : tx.type # "dividend" /\ tx.quantity = 10},
             MaxPlainTx)

\* what the fetch of data/transactions.json can give: a failure, a document
\* without a transactions array, or a document with one
LoadResponses(ledgers) ==
    { [kind |-> "network", hasTransactions |-> FALSE, transactions |-> <<>>],
      [kind |-> "http", hasTransactions |-> FALSE, transactions |-> <<>>],
      [kind |-> "ok", hasTransactions |-> FALSE, transactions |-> <<>>] }
    \cup { [kind |-> "ok", hasTransactions |-> TRUE, transactions |-> l] : l \in ledgers }

\* the market price the source quotes for a ticker, in its local currency
PriceQuote(ticker) == IF ticker = TickerUS THEN Num(150) ELSE Num(2500)

\* the rate the source quotes for a currency
RateQuote(currency) ==
    LET quotes == (GBP :> Rat(6, 5)) @@ (USD :> Rat(9, 10))
                  @@ (SEK :> Rat(9, 100)) @@ (PLN :> Rat(6, 25))
    IN  quotes[currency]

(***************************************************************************)
(* State                                                                   *)
(***************************************************************************)
VARIABLES
    pc,              \* where init() is: "idle", "loading", "fetching", "done"
    loadPromise,     \* the promise of loadTransactions(): its state
    transactions,    \* the global transactions
    positions,       \* init's positions (calculatePositions' result)
    tickers,         \* init's tickers: the unique tickers, first seen first
    rateLookups,     \* currency -> the promise of its lookup in fetchExchangeRates
    rates,           \* the rates object fetchExchangeRates fills
    prices,          \* the promises of tickers.map(fetchYahooPrice), by index
    exchangeRates,   \* the global exchangeRates
    stockPrices,     \* the global stockPrices
    openPositions,   \* init's openPositions
    closedPositions, \* init's closedPositions
    openData,        \* init's openData, as handed to renderOpenPositions
    closedData,      \* init's closedData
    summary,         \* the argument of updateSummary and what it derives
    calls,           \* which of the render functions have been called
    errorRow,        \* the message of the error row, "" when none is shown
    overlayHidden,   \* the loading overlay has the class hidden
    conversion       \* a call of convertToEUR: its arguments, what it returned
                     \* and how many times it has been applied

vars == <<pc, loadPromise, transactions, positions, tickers, rateLookups, rates, prices,
          exchangeRates, stockPrices, openPositions, closedPositions, openData,
          closedData, summary, calls, errorRow, overlayHidden, conversion>>

EmptyObject == [k \in {} |-> Undefined]

NoSummary ==
    [totalPortfolioValue |-> Undefined, totalInvested |-> Undefined,
     totalUnrealizedPL |-> Undefined, totalRealizedPL |-> Undefined,
     totalPL |-> Undefined, totalPLPercent |-> Undefined]

\* convertToEUR has not been called
NoConversion ==
    [price |-> Null, localCurrency |-> EUR, rates |-> EmptyObject,
     value |-> Undefined, applications |-> 0]

\* the page before DOMContentLoaded
PageLoaded ==
    /\ pc = "idle"
    /\ loadPromise = "pending"
    /\ transactions = <<>>
    /\ positions = <<>>
    /\ tickers = <<>>
    /\ rateLookups = EmptyObject
    /\ rates = EmptyObject
    /\ prices = <<>>
    /\ exchangeRates = EmptyObject
    /\ stockPrices = EmptyObject
    /\ openPositions = <<>>
    /\ closedPositions = <<>>
    /\ openData = <<>>
    /\ closedData = <<>>
    /\ summary = NoSummary
    /\ calls = {}
    /\ errorRow = ""
    /\ overlayHidden = FALSE

Init ==
    /\ PageLoaded
    /\ conversion = NoConversion

(***************************************************************************)
(* init()                                                                  *)
(***************************************************************************)
\* [...new Set(transactions.map(t => t.yahooTicker))]
RECURSIVE UniqueTickers(_, _, _)
UniqueTickers(txs, k, acc) ==
    IF k > Len(txs) THEN acc
    ELSE UniqueTickers(txs, k + 1,
                       IF \E j \in 1..Len(acc) : acc[j] = txs[k].yahooTicker
                       THEN acc
                       ELSE Append(acc, txs[k].yahooTicker))

\* the catch and finally blocks of init
Fail(message) ==
    /\ errorRow' = message
    /\ overlayHidden' = TRUE
    /\ pc' = "done"

\* init without its check of the empty array
NoTransactionsUnchecked(loaded) == FALSE

\* transactions.length === 0
NoTransactions(loaded) == Len(loaded) = 0

\* DOMContentLoaded: init runs up to its await of loadTransactions
Start ==
    /\ pc = "idle"
    /\ pc' = "loading"
    /\ UNCHANGED <<loadPromise, transactions, positions, tickers, rateLookups, rates, prices,
                   exchangeRates, stockPrices, openPositions, closedPositions,
                   openData, closedData, summary, calls, errorRow, overlayHidden,
                   conversion>>

\* loadTransactions settles and init runs on to its await of Promise.all:
\* the emptiness check, calculatePositions, the unique tickers and the start
\* of every lookup
LoadSettles(response) ==
    /\ pc = "loading"
    /\ loadPromise' = IF response.kind # "ok" THEN "rejected" ELSE "fulfilled"
    /\ IF response.kind # "ok"
       THEN /\ Fail(IF response.kind = "http" THEN "HTTP error" ELSE "Failed to fetch")
            /\ UNCHANGED <<transactions, positions, tickers, rateLookups, rates, prices>>
       ELSE LET loaded == IF response.hasTransactions THEN response.transactions
                          ELSE <<>>
            IN  /\ transactions' = loaded
                /\ IF NoTransactions(loaded)
                   THEN /\ Fail("No transactions found")
                        /\ UNCHANGED <<positions, tickers, rateLookups, rates, prices>>
                   ELSE /\ positions' = calculatePositions(loaded)
                        /\ tickers' = UniqueTickers(loaded, 1, <<>>)
                        /\ rateLookups' = [c \in ConfiguredCurrencies |-> Pending]
                        /\ rates' = (EUR :> Num(1))
                        /\ prices' = [i \in 1..Len(tickers') |-> Pending]
                        /\ pc' = "fetching"
                        /\ UNCHANGED <<errorRow, overlayHidden>>
    /\ UNCHANGED <<exchangeRates, stockPrices, openPositions, closedPositions,
                   openData, closedData, summary, calls, conversion>>

\* the callback without its else branch: a failed lookup stores nothing
RatesAfterOmitsFailed(ratesObject, currency, r) ==
    IF r.state = "rejected" \/ ~Truthy(r.value) THEN ratesObject
    ELSE (currency :> r.value) @@ ratesObject

\* the rates object after the callback of fetchExchangeRates has run for
\* `currency` with the settled lookup r
RatesAfter(ratesObject, currency, r) ==
    IF r.state = "rejected" THEN ratesObject
    ELSE (currency :> (IF Truthy(r.value) THEN r.value ELSE FallbackRate(currency)))
         @@ ratesObject

\* init has assigned exchangeRates = rates: both name one object
Aliased == DOMAIN exchangeRates # {}

\* the rate lookup of one currency settles and its callback stores the rate
RateLookupSettles(currency) ==
    /\ pc \in {"fetching", "done"}
    /\ rateLookups[currency].state = "pending"
    /\ \E response \in Responses(RateQuote(currency)) :
          LET r == fetchYahooPrice(response)
          IN  /\ rateLookups' = [rateLookups EXCEPT ![currency] = r]
              /\ rates' = RatesAfter(rates, currency, r)
              /\ exchangeRates' = IF Aliased THEN rates' ELSE exchangeRates
    /\ UNCHANGED <<pc, loadPromise, transactions, positions, tickers, prices, stockPrices,
                   openPositions, closedPositions, openData, closedData, summary,
                   calls, errorRow, overlayHidden, conversion>>

\* the price lookup of tickers[i] settles
PriceLookupSettles(i) ==
    /\ pc \in {"fetching", "done"}
    /\ prices[i].state = "pending"
    /\ \E response \in Responses(PriceQuote(tickers[i])) :
          prices' = [prices EXCEPT ![i] = fetchYahooPrice(response)]
    /\ UNCHANGED <<pc, loadPromise, transactions, positions, tickers, rateLookups, rates,
                   exchangeRates, stockPrices, openPositions, closedPositions,
                   openData, closedData, summary, calls, errorRow, overlayHidden,
                   conversion>>

\* the promise fetchExchangeRates returns: it awaits Promise.all(promises)
RatesPromise == PromiseAll({rateLookups[c].state : c \in DOMAIN rateLookups})

\* the promise init awaits: Promise.all([fetchExchangeRates(), ...prices])
JoinPromise ==
    PromiseAll({RatesPromise} \cup {prices[i].state : i \in 1..Len(prices)})

\* tickers.forEach((ticker, i) => stockPrices[ticker] = prices[i]), on the
\* array of values the join delivered
MapPrices(old, tickerSeq, values) ==
    LET seen == {tickerSeq[i] : i \in 1..Len(tickerSeq)}
        last(t) == CHOOSE i \in 1..Len(tickerSeq) :
                       /\ tickerSeq[i] = t
                       /\ \A j \in 1..Len(tickerSeq) : tickerSeq[j] = t => j <= i
    IN  [t \in DOMAIN old \cup seen |-> IF t \in seen THEN values[last(t)] ELSE old[t]]

SelectOpen(all) == SelectSeq(all, IsOpen)

SelectClosed(all) == SelectSeq(all, IsClosed)

\* The join settles and init runs to its end.  When the join is fulfilled:
\* the globals are assigned, the positions classified and valued, the tables
\* rendered and the summary updated; when it is rejected: the catch block.
\* Either way the finally block hides the overlay.
Join ==
    /\ pc = "fetching"
    /\ JoinPromise # "pending"
    /\ IF JoinPromise = "rejected"
       THEN /\ Fail("lookup rejected")
            /\ UNCHANGED <<exchangeRates, stockPrices, openPositions,
                           closedPositions, openData, closedData, summary, calls>>
       ELSE LET values == [i \in 1..Len(prices) |-> prices[i].value]
                newPrices == MapPrices(stockPrices, tickers, values)
                open == SelectOpen(positions)
                closed == SelectClosed(positions)
                metrics == [i \in 1..Len(open) |-> OpenMetrics(open[i], newPrices, rates)]
                totalPortfolioValue ==
                    SumKnown(metrics, "currentValue", "currentValue", 1, Num(0))
                totalInvested == SumLots(metrics, "invested", 1, Num(0))
                totalUnrealizedPL == SumKnown(metrics, "pl", "pl", 1, Num(0))
                records == [i \in 1..Len(open) |->
                               OpenRecord(metrics[i], totalPortfolioValue)]
                closedRecords == [i \in 1..Len(closed) |-> ClosedRecord(closed[i])]
                totalRealizedPL == SumLots(closedRecords, "realizedPL", 1, Num(0))
                totalPL == Add(totalUnrealizedPL, totalRealizedPL)
            IN  /\ exchangeRates' = rates
                /\ stockPrices' = newPrices
                /\ openPositions' = open
                /\ closedPositions' = closed
                /\ openData' = SortByValue(records, Len(records), <<>>)
                /\ closedData' = closedRecords
                /\ summary' =
                       [totalPortfolioValue |-> totalPortfolioValue,
                        totalInvested |-> totalInvested,
                        totalUnrealizedPL |-> totalUnrealizedPL,
                        totalRealizedPL |-> totalRealizedPL,
                        totalPL |-> totalPL,
                        totalPLPercent |->
                            IF GtZero(totalInvested)
                            THEN Mul(Div(totalPL, totalInvested), Num(100))
                            ELSE Num(0)]
                /\ calls' = {"renderOpenPositions", "renderClosedPositions",
                             "updateSummary"}
                /\ overlayHidden' = TRUE
                /\ pc' = "done"
                /\ UNCHANGED errorRow
    /\ UNCHANGED <<loadPromise, transactions, positions, tickers, rateLookups, rates,
                   prices, conversion>>

\* Every lookup settles, the steps RateLookupSettles and PriceLookupSettles
\* taken together: the rate lookups all succeed or all fail, each price
\* lookup succeeds or fails on its own.
LookupsSettle ==
    /\ pc = "fetching"
    /\ \A c \in DOMAIN rateLookups : rateLookups[c].state = "pending"
    /\ \A i \in 1..Len(prices) : prices[i].state = "pending"
    /\ \E rateKind \in {"ok", "http"}, priceKind \in [1..Len(prices) -> {"ok", "http"}] :
          LET settled(c) == fetchYahooPrice([kind |-> rateKind, price |-> RateQuote(c)])
          IN  /\ rateLookups' = [c \in DOMAIN rateLookups |-> settled(c)]
              /\ rates' = [k \in DOMAIN rates \cup DOMAIN rateLookups |->
                              IF k \in DOMAIN rateLookups
                              THEN RatesAfter(rates, k, settled(k))[k]
                              ELSE rates[k]]
              /\ prices' = [i \in 1..Len(prices) |->
                               fetchYahooPrice([kind |-> priceKind[i],
                                                price |-> PriceQuote(tickers[i])])]
    /\ UNCHANGED <<pc, loadPromise, transactions, positions, tickers, exchangeRates,
                   stockPrices,
                   openPositions, closedPositions, openData, closedData, summary,
                   calls, errorRow, overlayHidden, conversion>>

(***************************************************************************)
(* A call of convertToEUR                                                  *)
(***************************************************************************)
MaxApplications == 2

\* prices to convert: no price, zero, a whole, a negative and a fractional
\* amount
ConversionPrices == {Null, Undefined, Num(0), Num(150), Num(-3), Rat(5, 2)}

\* currency codes to convert from
CurrencyCodes ==
    {EUR, GBP, USD, SEK, PLN, GBX, <<"e", "u", "r">>, <<"E", "u", "r">>,
     <<"g", "b", "x">>, <<"u", "s", "d">>, <<"C", "H", "F">>}

\* rate tables to convert with: empty, EUR alone, the fetched and the
\* fallback table, a table without EUR, and one whose EUR rate is 2
RateTables ==
    { EmptyObject,
      (EUR :> Num(1)),
      [c \in ConfiguredCurrencies \cup {EUR} |->
          IF c = EUR THEN Num(1) ELSE RateQuote(c)],
      [c \in ConfiguredCurrencies \cup {EUR} |->
          IF c = EUR THEN Num(1) ELSE FallbackRate(c)],
      [c \in ConfiguredCurrencies |-> RateQuote(c)],
      [c \in {EUR, USD} |-> IF c = EUR THEN Num(2) ELSE Num(0)] }

\* the arguments of a call are chosen; nothing has been converted
InitConverter ==
    /\ PageLoaded
    /\ \E price \in ConversionPrices, code \in CurrencyCodes, table \in RateTables :
           conversion = [price |-> price, localCurrency |-> code, rates |-> table,
                         value |-> Undefined, applications |-> 0]

\* convertToEUR is applied: to the price first, then to what it returned,
\* with the same currency code and rate table.  What it returned is an
\* amount in EUR, so it is converted again only from a code that names EUR.
Convert ==
    /\ conversion.applications < MaxApplications
    /\ conversion.applications > 0 => ToUpperCase(conversion.localCurrency) = EUR
    /\ LET argument == IF conversion.applications = 0 THEN conversion.price
                       ELSE conversion.value
       IN  conversion' =
               [conversion EXCEPT
                   !.value = convertToEUR(argument, conversion.localCurrency,
                                          conversion.rates),
                   !.applications = @ + 1]
    /\ UNCHANGED <<pc, loadPromise, transactions, positions, tickers, rateLookups, rates,
                   prices, exchangeRates, stockPrices, openPositions, closedPositions,
                   openData, closedData, summary, calls, errorRow, overlayHidden>>

(***************************************************************************)
(* Specifications                                                          *)
(***************************************************************************)
\* init() with every interleaving of its lookups, on the plain ledgers
Next ==
    \/ Start
    \/ \E response \in LoadResponses(PlainLedgers) : LoadSettles(response)
    \/ \E c \in DOMAIN rateLookups : RateLookupSettles(c)
    \/ \E i \in 1..Len(prices) : PriceLookupSettles(i)
    \/ Join

Spec == Init /\ [][Next]_vars

\* init() on every ledger, the lookups settling in one step
NextEngine ==
    \/ Start
    \/ \E response \in LoadResponses(Ledgers) : LoadSettles(response)
    \/ LookupsSettle
    \/ Join

SpecEngine == Init /\ [][NextEngine]_vars

\* convertToEUR applied up to MaxApplications times to each input
NextConverter == Convert

SpecConverter == InitConverter /\ [][NextConverter]_vars

(***************************************************************************)
(* Properties                                                              *)
(***************************************************************************)
\* init has aggregated the loaded ledger into positions
Aggregated == loadPromise = "fulfilled" /\ Len(transactions) > 0

\* init has run its valuation and rendered
Rendered == pc = "done" /\ calls # {}

\* the sum of the quantities of the transactions at the indexes S
RECURSIVE QuantityAt(_, _)
QuantityAt(txs, S) ==
    IF S = {} THEN 0
    ELSE LET i == CHOOSE j \in S : TRUE
         IN  txs[i].quantity + QuantityAt(txs, S \ {i})

IndexesOf(txs, ticker, type) ==
    {i \in 1..Len(txs) : txs[i].yahooTicker = ticker /\ txs[i].type = type}

NetQuantity(txs, ticker) ==
    QuantityAt(txs, IndexesOf(txs, ticker, "buy"))
    - QuantityAt(txs, IndexesOf(txs, ticker, "sell"))

Reordered(txs, p) == [i \in 1..Len(txs) |-> txs[p[i]]]

\* C1: for every ledger and every ticker in it, the currentQuantity of the
\* ticker's Position is the sum of its buy quantities minus the sum of its
\* sell quantities, and it is the same for every reordering of the ledger.
C1_QuantityIsBuysMinusSells ==
    Aggregated =>
        \A i \in 1..Len(transactions) :
            LET ticker == transactions[i].yahooTicker
            IN  /\ HasTicker(positions, ticker)
                /\ PositionOf(positions, ticker).currentQuantity
                       = NetQuantity(transactions, ticker)
                /\ \A p \in Permutations(1..Len(transactions)) :
                       LET other == calculatePositions(Reordered(transactions, p))
                       IN  /\ HasTicker(other, ticker)
                           /\ PositionOf(other, ticker).currentQuantity
                                  = PositionOf(positions, ticker).currentQuantity

\* a ledger that sells a ticker before it buys it: 10 bought, 4 sold
C1_Witness ==
    /\ Aggregated
    /\ Len(transactions) = 2
    /\ transactions[1].type = "sell" /\ transactions[1].quantity = 4
    /\ transactions[2].type = "buy" /\ transactions[2].quantity = 10
    /\ transactions[1].yahooTicker = transactions[2].yahooTicker
    /\ positions[1].currentQuantity = 6

\* the ledger without the transactions that are neither buys nor sells
BuysAndSells(txs) == SelectSeq(txs, LAMBDA tx : tx.type \in {"buy", "sell"})

SameQuantityAndLots(p, q) ==
    /\ p.currentQuantity = q.currentQuantity
    /\ p.buys = q.buys
    /\ p.sells = q.sells

\* C8 as stated: the currentQuantity, buys and sells of every Position that
\* calculatePositions returns are those of the Position it returns for the
\* ledger without the transactions that are neither buys nor sells.
C8_SameAsWithoutOtherTypes ==
    Aggregated =>
        LET reduced == calculatePositions(BuysAndSells(transactions))
        IN  \A i \in 1..Len(positions) :
                /\ HasTicker(reduced, positions[i].ticker)
                /\ SameQuantityAndLots(positions[i],
                                       PositionOf(reduced, positions[i].ticker))

\* C8, amended: a transaction that is neither a buy nor a sell changes no
\* quantity and no lot, but it does create the Position of a ticker not seen
\* before.  Every Position has the currentQuantity, buys and sells of the
\* Position the reduced ledger gives for its ticker, or, when the ticker
\* occurs only in such transactions, quantity 0 and no lots; and the reduced
\* ledger gives no Position that the full ledger does not.
C8_OtherTypesChangeNoQuantityOrLot ==
    Aggregated =>
        LET reduced == calculatePositions(BuysAndSells(transactions))
        IN  /\ \A i \in 1..Len(positions) :
                   IF HasTicker(reduced, positions[i].ticker)
                   THEN SameQuantityAndLots(positions[i],
                                            PositionOf(reduced, positions[i].ticker))
                   ELSE /\ positions[i].currentQuantity = 0
                        /\ positions[i].buys = <<>>
                        /\ positions[i].sells = <<>>
            /\ \A j \in 1..Len(reduced) : HasTicker(positions, reduced[j].ticker)

\* a dividend of one ticker, then a buy of the other: the first Position is
\* empty, the second has the one buy lot
C8_Witness ==
    /\ Aggregated
    /\ Len(transactions) = 2
    /\ transactions[1].type = "dividend"
    /\ transactions[2].type = "buy"
    /\ transactions[1].yahooTicker # transactions[2].yahooTicker
    /\ Len(positions) = 2
    /\ positions[1].currentQuantity = 0 /\ positions[1].buys = <<>>
    /\ Len(positions[2].buys) = 1
    /\ positions[2].currentQuantity = transactions[2].quantity

\* the identifiers seen in the ledger
Seen == {transactions[i].yahooTicker : i \in 1..Len(transactions)}

TickersOf(ps) == {ps[i].ticker : i \in 1..Len(ps)}

\* C2: after classification, a Position with currentQuantity > 0 is in
\* openPositions and not in closedPositions; one with currentQuantity <= 0
\* and a sell lot is in closedPositions and not in openPositions; one with
\* currentQuantity <= 0 and no sell lot is in neither; the two are disjoint
\* and hold only identifiers seen in the ledger.
C2_Classification ==
    Rendered =>
        /\ \A i \in 1..Len(positions) :
               LET pos == positions[i]
                   inOpen == \E j \in 1..Len(openPositions) : openPositions[j] = pos
                   inClosed == \E j \in 1..Len(closedPositions) : closedPositions[j] = pos
               IN  /\ pos.currentQuantity > 0 => inOpen /\ ~inClosed
                   /\ pos.currentQuantity <= 0 /\ Len(pos.sells) >= 1
                          => inClosed /\ ~inOpen
                   /\ pos.currentQuantity <= 0 /\ Len(pos.sells) = 0
                          => ~inOpen /\ ~inClosed
        /\ TickersOf(openPositions) \cap TickersOf(closedPositions) = {}
        /\ TickersOf(openPositions) \cup TickersOf(closedPositions) \subseteq Seen
        /\ Len(openPositions) = Cardinality(TickersOf(openPositions))
        /\ Len(closedPositions) = Cardinality(TickersOf(closedPositions))

\* one ticker open, the other closed
C2_Witness ==
    /\ Rendered
    /\ Len(openPositions) = 1
    /\ Len(closedPositions) = 1
    /\ closedPositions[1].currentQuantity < 0

\* the sum of a field over the lots at the indexes S
RECURSIVE FieldAt(_, _, _)
FieldAt(lots, field, S) ==
    IF S = {} THEN Num(0)
    ELSE LET i == CHOOSE j \in S : TRUE
         IN  Add(lots[i][field], FieldAt(lots, field, S \ {i}))

TotalOf(lots, field) == FieldAt(lots, field, DOMAIN lots)

QuantityOf(lots) == QuantityAt(lots, DOMAIN lots)

\* Sum(totalEur) / Sum(quantity) over the buy lots, 0 with no buy lots
AvgBuy(pos) ==
    IF Len(pos.buys) = 0 THEN Num(0)
    ELSE Div(TotalOf(pos.buys, "totalEur"), Num(QuantityOf(pos.buys)))

\* Sum(eurValue) / Sum(quantity) over the sell lots
AvgSell(pos) == Div(TotalOf(pos.sells, "eurValue"), Num(QuantityOf(pos.sells)))

\* C9: for every closed position, realizedPL is
\* (avgSellPrice - avgBuyPrice) * totalQtySold - Sum(sell lots' totalCosts),
\* with the averages and the quantity sold as the record reports them; and a
\* buy of 10 with totalEur 1020 followed by a sell of 10 with eurValue 480 and
\* totalCosts 2 gives avgBuyPrice 102, avgSellPrice 48 and realizedPL -542.
C9_RealizedPL ==
    Rendered =>
        /\ Len(closedData) = Len(closedPositions)
        /\ \A i \in 1..Len(closedData) :
               LET pos == closedPositions[i]
                   d == closedData[i]
               IN  /\ d.ticker = pos.ticker
                   /\ d.avgBuyPrice = AvgBuy(pos)
                   /\ d.avgSellPrice = AvgSell(pos)
                   /\ d.quantityTraded = QuantityOf(pos.sells)
                   /\ d.realizedPL =
                          Sub(Mul(Sub(AvgSell(pos), AvgBuy(pos)),
                                  Num(QuantityOf(pos.sells))),
                              TotalOf(pos.sells, "totalCosts"))
                   /\ ( /\ Len(pos.buys) = 1 /\ Len(pos.sells) = 1
                        /\ pos.buys[1].quantity = 10
                        /\ pos.buys[1].totalEur = Num(1020)
                        /\ pos.sells[1].quantity = 10
                        /\ pos.sells[1].eurValue = Num(480)
                        /\ pos.sells[1].totalCosts = Num(2) )
                      => /\ d.avgBuyPrice = Num(102)
                         /\ d.avgSellPrice = Num(48)
                         /\ d.realizedPL = Num(-542)

\* the ledger of the example: buy 10 for 1020 in total, sell 10 for 480 at cost 2
C9_Witness ==
    /\ Rendered
    /\ Len(transactions) = 2
    /\ transactions[1].type = "buy" /\ transactions[1].quantity = 10
    /\ transactions[1].totalEur = Num(1020)
    /\ transactions[2].type = "sell" /\ transactions[2].quantity = 10
    /\ transactions[2].eurValue = Num(480) /\ transactions[2].totalCosts = Num(2)
    /\ Len(closedData) = 1
    /\ closedData[1].realizedPL = Num(-542)

\* the open position of an open record
OpenPositionOf(d) ==
    CHOOSE pos \in {openPositions[i] : i \in 1..Len(openPositions)} :
        pos.ticker = d.ticker

Invested(pos) == Mul(AvgBuy(pos), Num(pos.currentQuantity))

\* C10: for every open position whose invested amount
\* avgBuyPrice * currentQuantity is 0, plPercent is null, whether or not the
\* current price is known; no division by zero yields a non-finite plPercent.
C10_PlPercentNullWhenNothingInvested ==
    Rendered =>
        /\ Len(openData) = Len(openPositions)
        /\ TickersOf(openData) = TickersOf(openPositions)
        /\ \A i \in 1..Len(openData) :
               /\ Invested(OpenPositionOf(openData[i])) = Num(0)
                      => openData[i].plPercent = Null
               /\ openData[i].plPercent # NaN

\* free shares (totalEur 0) whose price is known: pl is known, invested is 0
C10_Witness ==
    /\ Rendered
    /\ \E i \in 1..Len(openData) :
           /\ Invested(OpenPositionOf(openData[i])) = Num(0)
           /\ openData[i].pl # Null
           /\ openData[i].plPercent = Null
    /\ \E i \in 1..Len(openData) :
           /\ Invested(OpenPositionOf(openData[i])) = Num(0)
           /\ openData[i].pl = Null

PriceOf(d) == Get(stockPrices, d.ticker)

Unpriced(d) == PriceOf(d) = Null \/ PriceOf(d) = Undefined

\* the records of openData at the indexes S, summed by f
RECURSIVE SumRecords(_, _)
SumRecords(f(_), S) ==
    IF S = {} THEN Num(0)
    ELSE LET i == CHOOSE j \in S : TRUE
         IN  Add(f(openData[i]), SumRecords(f, S \ {i}))

ValueOf(d) ==
    Mul(convertToEUR(PriceOf(d), getCurrencyFromTicker(d.ticker), exchangeRates),
        Num(d.quantity))

InvestedOf(d) == Invested(OpenPositionOf(d))

GainOf(d) == Sub(ValueOf(d), InvestedOf(d))

\* C7: convertToEUR of a null or undefined price is null for every currency
\* code and rate table; the record of an open position whose price is
\* unavailable has currentPriceEUR, currentValue, pl, plPercent and
\* portfolioPercent null, and init still renders; totalInvested includes the
\* invested amount of every open position, totalPortfolioValue and
\* totalUnrealizedPL only the positions whose price is available.
C7_UnpricedPositionsAreNull ==
    /\ \A price \in {Null, Undefined}, code \in CurrencyCodes, table \in RateTables :
           convertToEUR(price, code, table) = Null
    /\ pc = "done" /\ Aggregated => Rendered /\ errorRow = ""
    /\ Rendered =>
           LET all == 1..Len(openData)
               priced == {i \in all : ~Unpriced(openData[i])}
           IN  /\ \A i \in all \ priced :
                      /\ openData[i].currentPriceEUR = Null
                      /\ openData[i].currentValue = Null
                      /\ openData[i].pl = Null
                      /\ openData[i].plPercent = Null
                      /\ openData[i].portfolioPercent = Null
               /\ summary.totalInvested = SumRecords(InvestedOf, all)
               /\ summary.totalPortfolioValue = SumRecords(ValueOf, priced)
               /\ summary.totalUnrealizedPL = SumRecords(GainOf, priced)

\* two open positions that cost 1020 each, one priced and one not
C7_Witness ==
    /\ Rendered
    /\ \E i, j \in 1..Len(openData) :
           /\ Unpriced(openData[i])
           /\ openData[i].currentValue = Null
           /\ InvestedOf(openData[i]) = Num(1020)
           /\ ~Unpriced(openData[j])
           /\ InvestedOf(openData[j]) = Num(1020)
           /\ summary.totalInvested = Num(2040)
           /\ summary.totalPortfolioValue = openData[j].currentValue
           /\ summary.totalUnrealizedPL = openData[j].pl

\* C3: when loadTransactions returns an empty array, init shows the error
\* row of the empty input and hides the overlay; no position is aggregated,
\* no rate or price lookup is issued, and none of renderOpenPositions,
\* renderClosedPositions and updateSummary is called.
C3_EmptyInputIsReported ==
    loadPromise = "fulfilled" /\ Len(transactions) = 0 =>
        /\ pc = "done"
        /\ errorRow = "No transactions found"
        /\ overlayHidden
        /\ positions = <<>>
        /\ tickers = <<>>
        /\ DOMAIN rateLookups = {}
        /\ DOMAIN rates = {}
        /\ prices = <<>>
        /\ openData = <<>> /\ closedData = <<>>
        /\ summary = NoSummary
        /\ calls = {}

C3_Witness ==
    /\ loadPromise = "fulfilled"
    /\ Len(transactions) = 0
    /\ errorRow = "No transactions found"
    /\ pc = "done"

SomeLookupPending ==
    \/ \E c \in DOMAIN rateLookups : rateLookups[c].state = "pending"
    \/ \E i \in 1..Len(prices) : prices[i].state = "pending"

\* C4: init starts one rate lookup per configured currency and one price
\* lookup per unique ticker, and in every interleaving of them the valuation
\* (openData, closedData, the rendering) has not started while one of them is
\* pending: when it has run, every lookup is settled.
C4_ValuationAfterAllLookups ==
    /\ Aggregated /\ pc \in {"fetching", "done"} =>
           /\ DOMAIN rateLookups = ConfiguredCurrencies
           /\ Len(prices) = Cardinality(Seen)
           /\ {tickers[i] : i \in 1..Len(tickers)} = Seen
           /\ Len(tickers) = Len(prices)
    /\ SomeLookupPending =>
           /\ pc = "fetching"
           /\ calls = {}
           /\ openData = <<>> /\ closedData = <<>>
           /\ summary = NoSummary
    /\ Rendered =>
           /\ \A c \in ConfiguredCurrencies : rateLookups[c].state = "fulfilled"
           /\ \A i \in 1..Len(prices) : prices[i].state = "fulfilled"

\* init has rendered a ledger of two tickers; one price lookup gave a price,
\* the other null
C4_Witness ==
    /\ Rendered
    /\ Len(prices) = 2
    /\ prices[1].value = Null
    /\ prices[2].value # Null
    /\ closedData # <<>>

\* C5: no lookup rejects: a failed one is fulfilled with null.  The failing
\* ticker alone has a null price in stockPrices, every other ticker has the
\* price of its own lookup, no failure ends the run while lookups are
\* pending, and init reaches the render step.
C5_FailureStaysLocal ==
    /\ \A c \in DOMAIN rateLookups : rateLookups[c].state # "rejected"
    /\ \A i \in 1..Len(prices) :
           /\ prices[i].state # "rejected"
           /\ prices[i].state = "fulfilled" =>
                  prices[i].value = IF prices[i].logged THEN Null
                                    ELSE PriceQuote(tickers[i])
    /\ SomeLookupPending => pc = "fetching" /\ errorRow = ""
    /\ pc = "done" /\ Aggregated =>
           /\ errorRow = ""
           /\ calls = {"renderOpenPositions", "renderClosedPositions", "updateSummary"}
           /\ DOMAIN stockPrices = Seen
           /\ \A i \in 1..Len(tickers) :
                  stockPrices[tickers[i]] = IF prices[i].logged THEN Null
                                            ELSE PriceQuote(tickers[i])

\* the first ticker's lookup failed, the second's did not, and a rate lookup
\* failed too; init has rendered
C5_Witness ==
    /\ Rendered
    /\ Len(tickers) = 2
    /\ prices[1].logged /\ stockPrices[tickers[1]] = Null
    /\ ~prices[2].logged /\ stockPrices[tickers[2]] = PriceQuote(tickers[2])
    /\ rateLookups[GBP].logged

FallbackConstants ==
    (GBP :> Rat(117, 100)) @@ (USD :> Rat(23, 25)) @@ (SEK :> Rat(11, 125))
    @@ (PLN :> Rat(23, 100))

\* fetchExchangeRates has returned its table
RatesReturned ==
    /\ pc \in {"fetching", "done"}
    /\ DOMAIN rateLookups # {}
    /\ RatesPromise = "fulfilled"

\* C6: the table fetchExchangeRates returns has EUR equal to 1 and, for each
\* of GBP, USD, SEK and PLN, the fetched rate when its lookup succeeded and
\* the currency's fallback constant when it failed; no code is missing.
\* The entries already stored stay as they are while other lookups settle.
C6_RateTableIsTotal ==
    /\ RatesReturned =>
           /\ DOMAIN rates = {EUR, GBP, USD, SEK, PLN}
           /\ rates[EUR] = Num(1)
           /\ \A c \in {GBP, USD, SEK, PLN} :
                  /\ IsNum(rates[c])
                  /\ rates[c] = IF rateLookups[c].logged THEN FallbackConstants[c]
                                ELSE RateQuote(c)
    /\ Rendered => exchangeRates = rates /\ RatesReturned

\* the GBP lookup failed and the USD lookup succeeded
C6_Witness ==
    /\ RatesReturned
    /\ rateLookups[GBP].logged /\ rates[GBP] = Rat(117, 100)
    /\ ~rateLookups[USD].logged /\ rates[USD] = Rat(9, 10)
    /\ rates[SEK] = Rat(11, 125)
    /\ rates[PLN] = Rat(6, 25)

\* convertToEUR has been applied to a price that is a number, with a
\* currency code whose upper case is EUR
ConvertedFromEur ==
    /\ conversion.applications >= 1
    /\ IsNum(conversion.price)
    /\ ToUpperCase(conversion.localCurrency) = EUR

\* C11: for every price that is a number, every rate table (with EUR
\* missing, 1 or another rate) and every currency code whose upper case is
\* EUR, convertToEUR returns the price unchanged, and so does every further
\* application to what it returned.
C11_EurPriceIsUnchanged ==
    ConvertedFromEur => conversion.value = conversion.price

\* 150 converted twice from "eur" under a table whose EUR rate is 2
C11_Witness ==
    /\ ConvertedFromEur
    /\ conversion.applications = MaxApplications
    /\ conversion.price = Num(150)
    /\ conversion.localCurrency = <<"e", "u", "r">>
    /\ Get(conversion.rates, EUR) = Num(2)
    /\ conversion.value = Num(150)

=============================================================================
